---- MODULE Spec2Model ----
(***************************************************************************)
(* Model of src/rag/python-scripts/embedding_server.py: the line-oriented  *)
(* JSON request/response loop EmbeddingServer.run, the dispatcher          *)
(* handle_request, and the model registry (load_model / embed).            *)
(*                                                                         *)
(* External collaborators (the SentenceTransformer constructor and its     *)
(* encode method) are nondeterministic: each call either returns or raises.*)
(* A KeyboardInterrupt may arrive at any position of the control flow.     *)
(***************************************************************************)
EXTENDS Integers, Sequences, FiniteSets, TLC

\* Bound on the number of lines the peer sends before closing the pipe.
MaxLines == 3

VARIABLES
    available,            \* SENTENCE_TRANSFORMERS_AVAILABLE (module level, l.37-42)
    model,                \* self.model: None or the loaded model object
    current_model_name,   \* self.current_model_name: None or a name
    pc,                   \* position of the control flow inside run()
    line,                 \* run(): the stripped line of the current iteration
    response,             \* run(): the response (or error_response) last built
    out,                  \* stdout: for each line printed, the index of the input line it answers
    log,                  \* stderr: the log lines written so far
    nRead,                \* number of lines taken from stdin so far
    nNonBlank,            \* number of those that were non-blank after strip()
    loads,                \* number of calls of the SentenceTransformer constructor
    stopped_by,           \* which way the for-loop was left
    exc                   \* exception propagating out of run() to its caller

vars == <<available, model, current_model_name, pc, line, response, out, log,
          nRead, nNonBlank, loads, stopped_by, exc>>

registry == <<model, current_model_name>>

----------------------------------------------------------------------------
\* Python values

None == "<None>"
DefaultModel == "all-MiniLM-L6-v2"
OtherModel == "m2"
ModelNames == {DefaultModel, OtherModel}

\* dict.get(key, default)
Get(d, k, default) == IF k \in DOMAIN d THEN d[k] ELSE default

\* A JSON value found under "texts": a list of strings, a bare string (ill-typed), or null.
TextsValues ==
    { [tag |-> "list", val |-> <<>>],
      [tag |-> "list", val |-> <<"t1">>],
      [tag |-> "list", val |-> <<"t1", "t2">>],
      [tag |-> "str",  val |-> <<"t1">>],
      [tag |-> "null", val |-> <<>>] }

EmptyList == [tag |-> "list", val |-> <<>>]

\* Python truthiness of such a value ("if not texts", l.104)
Truthy(t) == t.tag # "null" /\ Len(t.val) > 0

\* JSON objects the peer may send. Fields the dispatcher never reads for an
\* action (texts/model outside embed) are left out of the enumeration.
IdValues == {"r1", "null"}
ActionValues == {"ping", "embed", "shutdown", "bogus"}

EmbedObjects ==
    { [action |-> "embed"], [id |-> "r1", action |-> "embed"] }
    \cup { [action |-> "embed", texts |-> t] : t \in TextsValues }
    \cup { [id |-> "r1", action |-> "embed", texts |-> t] : t \in TextsValues }
    \cup { [action |-> "embed", texts |-> t, model |-> OtherModel] : t \in TextsValues }
    \cup { [id |-> "r1", action |-> "embed", texts |-> t, model |-> DefaultModel] :
               t \in TextsValues \ {EmptyList} }
    \cup { [id |-> "r1", action |-> "embed", model |-> OtherModel] }

OtherObjects ==
    { [action |-> a] : a \in ActionValues \ {"embed"} }
    \cup { [id |-> i, action |-> a] : i \in IdValues, a \in ActionValues \ {"embed"} }
    \cup { [id |-> i] : i \in IdValues }
    \cup { [model |-> OtherModel] }

Objects == EmbedObjects \cup OtherObjects

\* Raw input lines: optional surrounding whitespace around a text that is
\* empty, not JSON at all, a JSON value that is not an object, or a JSON object.
RawLines ==
    { [ws |-> w, text |-> "empty"] : w \in BOOLEAN }
    \cup { [ws |-> FALSE, text |-> "garbage"] }
    \cup { [ws |-> TRUE, text |-> "array"] }
    \cup { [ws |-> FALSE, text |-> "object", obj |-> o] : o \in Objects }

NoLine == [ws |-> FALSE, text |-> "none"]
NoResponse == [none |-> TRUE]

\* Variant: the line is used as read, without strip()
StripNothing(l) == l

\* str.strip() (l.143)
Strip(l) == [l EXCEPT !.ws = FALSE]

\* "not line" on a str (l.144): only the empty string is falsy
IsEmptyStr(l) == l.text = "empty" /\ ~l.ws

\* json.loads (l.148): raises JSONDecodeError, or returns a value
Decodes(l) == l.text \in {"array", "object"}
IsDict(l) == l.text = "object"
JsonLoads(l) == l.obj

----------------------------------------------------------------------------
\* Responses built by handle_request and run

\* Variant: the capability flag is hard-wired instead of read from the import result
PingResponseFlagFixed(request_id) ==
    [id |-> request_id, success |-> TRUE, pong |-> TRUE,
     sentence_transformers_available |-> TRUE, error |-> None]

PingResponse(request_id) ==
    [id |-> request_id, success |-> TRUE, pong |-> TRUE,
     sentence_transformers_available |-> available, error |-> None]

ShutdownResponse(request_id) ==
    [id |-> request_id, success |-> TRUE, shutdown |-> TRUE, error |-> None]

\* Variant: dimensions is taken from the list of vectors, not from a vector
EmbedResponseDimOfList(request_id, embeddings) ==
    [id |-> request_id, success |-> TRUE, embeddings |-> embeddings,
     dimensions |-> Len(embeddings),
     count |-> Len(embeddings), error |-> None]

EmbedResponse(request_id, embeddings) ==
    [id |-> request_id, success |-> TRUE, embeddings |-> embeddings,
     dimensions |-> IF Len(embeddings) > 0 THEN Len(embeddings[1]) ELSE 0,
     count |-> Len(embeddings), error |-> None]

\* Variant: the failure path forgets the request id
FailureResponseNoEcho(request_id, message) ==
    [id |-> "unknown", success |-> FALSE, error |-> message,
     traceback |-> "Traceback (most recent call last): ..."]

FailureResponse(request_id, message) ==
    [id |-> request_id, success |-> FALSE, error |-> message,
     traceback |-> "Traceback (most recent call last): ..."]

InvalidJsonResponse ==
    [success |-> FALSE, error |-> "Invalid JSON: ..."]

\* handle_request's two lookups before its try block (l.87-88)
RequestId(request) == Get(request, "id", "unknown")
RequestAction(request) == Get(request, "action", "unknown")
\* the embed branch's lookups (l.101-102)
RequestTexts(request) == Get(request, "texts", EmptyList)
RequestModel(request) == Get(request, "model", DefaultModel)

\* What SentenceTransformer.encode(texts).tolist() returns for a list of texts:
\* one vector per text, in order, each of the model's dimension.
Dim(m) == IF m = DefaultModel THEN 2 ELSE 3
Vector(m, t) == [i \in 1..Dim(m) |-> <<m, t>>]
Encode(m, texts) == [i \in 1..Len(texts.val) |-> Vector(m, texts.val[i])]

----------------------------------------------------------------------------
Init ==
    /\ available \in BOOLEAN
    /\ model = None
    /\ current_model_name = None
    /\ pc = "start"
    /\ line = NoLine
    /\ response = NoResponse
    /\ out = <<>>
    /\ log = <<>>
    /\ nRead = 0
    /\ nNonBlank = 0
    /\ loads = 0
    /\ stopped_by = "running"
    /\ exc = None

\* l.139: log_info("Embedding server started"), then enter the try block
Start ==
    /\ pc = "start"
    /\ log' = Append(log, "[INFO] Embedding server started")
    /\ pc' = "read"
    /\ UNCHANGED <<available, model, current_model_name, line, response, out,
                   nRead, nNonBlank, loads, stopped_by, exc>>

\* l.142-145: take the next line from stdin, strip it, skip it when empty
ReadLine(raw) ==
    /\ pc = "read"
    /\ nRead < MaxLines
    /\ nRead' = nRead + 1
    /\ line' = Strip(raw)
    /\ response' = NoResponse
    /\ IF IsEmptyStr(line')
         THEN pc' = "read" /\ nNonBlank' = nNonBlank
         ELSE pc' = "body" /\ nNonBlank' = nNonBlank + 1
    /\ UNCHANGED <<available, model, current_model_name, out, log, loads,
                   stopped_by, exc>>

\* l.142: stdin is exhausted, the for-loop ends normally
EndOfInput ==
    /\ pc = "read"
    /\ stopped_by' = "eof"
    /\ pc' = "finally"
    /\ UNCHANGED <<available, model, current_model_name, line, response, out,
                   log, nRead, nNonBlank, loads, exc>>

\* Variant: no inner handler for JSONDecodeError, so the outer one ends the loop
DecodeErrorFatal ==
    /\ pc = "body"
    /\ ~Decodes(line)
    /\ stopped_by' = "fault"
    /\ pc' = "fault"
    /\ UNCHANGED <<available, model, current_model_name, line, response, out,
                   log, nRead, nNonBlank, loads, exc>>

\* l.148, 158-163: json.loads raises JSONDecodeError; log it, build error_response
DecodeError ==
    /\ pc = "body"
    /\ ~Decodes(line)
    /\ log' = Append(log, "[ERROR] Invalid JSON")
    /\ response' = InvalidJsonResponse
    /\ pc' = "print_error"
    /\ UNCHANGED <<available, model, current_model_name, line, out, nRead,
                   nNonBlank, loads, stopped_by, exc>>

\* l.164: print(json.dumps(error_response), flush=True); next iteration
PrintError ==
    /\ pc = "print_error"
    /\ out' = Append(out, nRead)
    /\ pc' = "read"
    /\ UNCHANGED <<available, model, current_model_name, line, response, log,
                   nRead, nNonBlank, loads, stopped_by, exc>>

\* l.149, 87: the decoded value is not a dict, so request.get raises
\* AttributeError before handle_request's try block; only run's
\* "except Exception" (l.168) catches it.
HandleRequestRaises ==
    /\ pc = "body"
    /\ Decodes(line)
    /\ ~IsDict(line)
    /\ stopped_by' = "fault"
    /\ pc' = "fault"
    /\ UNCHANGED <<available, model, current_model_name, line, response, out,
                   log, nRead, nNonBlank, loads, exc>>

\* Variant: the model is loaded before texts is validated
ReachesRegistryBeforeValidation(request) ==
    /\ RequestAction(request) = "embed"
    /\ available

\* embed() gets as far as load_model's constructor/reuse decision (l.104, 72, 76)
ReachesRegistry(request) ==
    /\ RequestAction(request) = "embed"
    /\ Truthy(RequestTexts(request))
    /\ available

\* Variant: the embed branch asks for the library before it validates texts
ImmediateResponseLibraryFirst(request) ==
    LET request_id == RequestId(request)
        action == RequestAction(request)
    IN  CASE action = "ping" -> PingResponse(request_id)
          [] action = "embed" ->
                IF ~available
                  THEN FailureResponse(request_id, "sentence-transformers not available")
                  ELSE FailureResponse(request_id, "No texts provided")
          [] action = "shutdown" -> ShutdownResponse(request_id)
          [] OTHER -> FailureResponse(request_id, "Unknown action: " \o action)

\* Variant: the unknown-action message does not name the action
ImmediateResponseActionUnnamed(request) ==
    LET request_id == RequestId(request)
        action == RequestAction(request)
    IN  CASE action = "ping" -> PingResponse(request_id)
          [] action = "embed" ->
                IF ~Truthy(RequestTexts(request))
                  THEN FailureResponse(request_id, "No texts provided")
                  ELSE FailureResponse(request_id, "sentence-transformers not available")
          [] action = "shutdown" -> ShutdownResponse(request_id)
          [] OTHER -> FailureResponse(request_id, "Unknown action")

\* handle_request for every request that never reaches the registry (l.90-135)
ImmediateResponse(request) ==
    LET request_id == RequestId(request)
        action == RequestAction(request)
    IN  CASE action = "ping" -> PingResponse(request_id)
          [] action = "embed" ->
                IF ~Truthy(RequestTexts(request))
                  THEN FailureResponse(request_id, "No texts provided")
                  ELSE FailureResponse(request_id, "sentence-transformers not available")
          [] action = "shutdown" -> ShutdownResponse(request_id)
          [] OTHER -> FailureResponse(request_id, "Unknown action: " \o action)

HandleRequest ==
    /\ pc = "body"
    /\ IsDict(line)
    /\ ~ReachesRegistry(JsonLoads(line))
    /\ response' = ImmediateResponse(JsonLoads(line))
    /\ pc' = "print"
    /\ UNCHANGED <<available, model, current_model_name, line, out, log, nRead,
                   nNonBlank, loads, stopped_by, exc>>

\* Variant: reuse whatever model is loaded, without comparing names
ReuseAnyLoaded(m, cur, model_name) == m # None

\* load_model's reuse test (l.58)
Reuse(m, cur, model_name) == m # None /\ cur = model_name

\* l.107, 76, 53-59: embed -> load_model, up to the reuse decision
EmbedLoadModel ==
    /\ pc = "body"
    /\ IsDict(line)
    /\ ReachesRegistry(JsonLoads(line))
    /\ pc' = IF Reuse(model, current_model_name, RequestModel(JsonLoads(line)))
               THEN "reuse_return" ELSE "construct"
    /\ UNCHANGED <<available, model, current_model_name, line, response, out,
                   log, nRead, nNonBlank, loads, stopped_by, exc>>

\* l.59: load_model returns True without touching the registry
ReuseReturn ==
    /\ pc = "reuse_return"
    /\ pc' = "encode"
    /\ UNCHANGED <<available, model, current_model_name, line, response, out,
                   log, nRead, nNonBlank, loads, stopped_by, exc>>

\* l.62: SentenceTransformer(model_name) returns; self.model is assigned
ConstructOk ==
    /\ pc = "construct"
    /\ loads' = loads + 1
    /\ model' = RequestModel(JsonLoads(line))
    /\ pc' = "set_name"
    /\ UNCHANGED <<available, current_model_name, line, response, out, log,
                   nRead, nNonBlank, stopped_by, exc>>

\* Variant: nothing on the way catches the constructor's exception before run
ConstructRaisesEscapes ==
    /\ pc = "construct"
    /\ loads' = loads + 1
    /\ stopped_by' = "fault"
    /\ pc' = "fault"
    /\ UNCHANGED <<available, model, current_model_name, line, response, out,
                   log, nRead, nNonBlank, exc>>

\* Variant: embed ignores what load_model returns and encodes with the held model
ConstructRaisesIgnored ==
    /\ pc = "construct"
    /\ loads' = loads + 1
    /\ log' = Append(log, "[ERROR] Model loading failed")
    /\ pc' = "encode"
    /\ UNCHANGED <<available, model, current_model_name, line, response, out,
                   nRead, nNonBlank, stopped_by, exc>>

\* Variant: the name is recorded before the constructor is called
ConstructRaisesNameFirst ==
    /\ pc = "construct"
    /\ loads' = loads + 1
    /\ current_model_name' = RequestModel(JsonLoads(line))
    /\ log' = Append(log, "[ERROR] Model loading failed")
    /\ response' = FailureResponse(RequestId(JsonLoads(line)),
                       "Failed to load model: " \o RequestModel(JsonLoads(line)))
    /\ pc' = "print"
    /\ UNCHANGED <<available, model, line, out, nRead, nNonBlank, stopped_by, exc>>

\* l.62, 66-68, 76-77, 129-135: the constructor raises; load_model logs and
\* returns False, embed raises RuntimeError, handle_request turns it into a failure
ConstructRaises ==
    /\ pc = "construct"
    /\ loads' = loads + 1
    /\ log' = Append(log, "[ERROR] Model loading failed")
    /\ response' = FailureResponse(RequestId(JsonLoads(line)),
                       "Failed to load model: " \o RequestModel(JsonLoads(line)))
    /\ pc' = "print"
    /\ UNCHANGED <<available, model, current_model_name, line, out, nRead,
                   nNonBlank, stopped_by, exc>>

\* Variant: the name of the new model is never recorded
SetNameForgotten ==
    /\ pc = "set_name"
    /\ pc' = "encode"
    /\ UNCHANGED <<available, model, current_model_name, line, response, out,
                   log, nRead, nNonBlank, loads, stopped_by, exc>>

\* l.63: self.current_model_name = model_name
SetName ==
    /\ pc = "set_name"
    /\ current_model_name' = RequestModel(JsonLoads(line))
    /\ pc' = "encode"
    /\ UNCHANGED <<available, model, line, response, out, log, nRead,
                   nNonBlank, loads, stopped_by, exc>>

\* l.80-83, 109-116: encode returns. For a list of texts the result is a list
\* of vectors; for a bare string it is one flat vector, and len(embeddings[0])
\* (l.113) raises TypeError, which l.129 turns into a failure.
EncodeOk ==
    /\ pc = "encode"
    /\ LET request == JsonLoads(line)
           texts == RequestTexts(request)
       IN  response' =
             IF texts.tag = "list"
               THEN EmbedResponse(RequestId(request), Encode(model, texts))
               ELSE FailureResponse(RequestId(request),
                                    "object of type 'float' has no len()")
    /\ pc' = "print"
    /\ UNCHANGED <<available, model, current_model_name, line, out, log, nRead,
                   nNonBlank, loads, stopped_by, exc>>

\* l.80, 129-135: encode raises
EncodeRaises ==
    /\ pc = "encode"
    /\ response' = FailureResponse(RequestId(JsonLoads(line)), "encode failed")
    /\ pc' = "print"
    /\ UNCHANGED <<available, model, current_model_name, line, out, log, nRead,
                   nNonBlank, loads, stopped_by, exc>>

\* Variant: the response stays in a buffer instead of reaching stdout
PrintResponseBuffered ==
    /\ pc = "print"
    /\ pc' = "check"
    /\ UNCHANGED <<available, model, current_model_name, line, response, out,
                   log, nRead, nNonBlank, loads, stopped_by, exc>>

\* l.152: print(json.dumps(response), flush=True)
PrintResponse ==
    /\ pc = "print"
    /\ out' = Append(out, nRead)
    /\ pc' = "check"
    /\ UNCHANGED <<available, model, current_model_name, line, response, log,
                   nRead, nNonBlank, loads, stopped_by, exc>>

\* Variant: the shutdown flag is not inspected, the loop goes on
CheckShutdownNoBreak ==
    /\ pc = "check"
    /\ pc' = "read"
    /\ UNCHANGED <<available, model, current_model_name, line, response, out,
                   log, nRead, nNonBlank, loads, stopped_by, exc>>

\* l.155-156: break when the response carries a truthy "shutdown"
CheckShutdown ==
    /\ pc = "check"
    /\ IF Get(response, "shutdown", FALSE)
         THEN pc' = "finally" /\ stopped_by' = "shutdown"
         ELSE pc' = "read" /\ stopped_by' = stopped_by
    /\ UNCHANGED <<available, model, current_model_name, line, response, out,
                   log, nRead, nNonBlank, loads, exc>>

\* Positions inside the try block of run (l.141-164)
InTry == {"read", "body", "print_error", "reuse_return", "construct",
          "set_name", "encode", "print", "check"}

\* KeyboardInterrupt raised inside the try block: it is no Exception, so the
\* handlers at l.66 and l.129 let it pass and l.166 catches it.
InterruptInLoop ==
    /\ pc \in InTry
    /\ stopped_by' = "interrupt"
    /\ pc' = "interrupted"
    /\ UNCHANGED <<available, model, current_model_name, line, response, out,
                   log, nRead, nNonBlank, loads, exc>>

\* KeyboardInterrupt raised outside the try block: before l.141 nothing
\* catches it; inside a handler (l.167, l.169) the finally clause still runs;
\* inside the finally clause (l.171) it propagates at once.
InterruptOutside ==
    /\ pc \in {"start", "interrupted", "fault", "finally"}
    /\ exc' = "KeyboardInterrupt"
    /\ pc' = IF pc \in {"interrupted", "fault"} THEN "finally" ELSE "raised"
    /\ UNCHANGED <<available, model, current_model_name, line, response, out,
                   log, nRead, nNonBlank, loads, stopped_by>>

\* Variant: the interruption is caught inside the loop, which then goes on
LogInterruptedAndContinue ==
    /\ pc = "interrupted"
    /\ log' = Append(log, "[INFO] Server interrupted")
    /\ pc' = "read"
    /\ UNCHANGED <<available, model, current_model_name, line, response, out,
                   nRead, nNonBlank, loads, stopped_by, exc>>

\* l.166-167
LogInterrupted ==
    /\ pc = "interrupted"
    /\ log' = Append(log, "[INFO] Server interrupted")
    /\ pc' = "finally"
    /\ UNCHANGED <<available, model, current_model_name, line, response, out,
                   nRead, nNonBlank, loads, stopped_by, exc>>

\* Variant: the fault is logged and raised again
LogServerErrorReraise ==
    /\ pc = "fault"
    /\ log' = Append(log, "[ERROR] Server error")
    /\ exc' = "Exception"
    /\ pc' = "finally"
    /\ UNCHANGED <<available, model, current_model_name, line, response, out,
                   nRead, nNonBlank, loads, stopped_by>>

\* l.168-169
LogServerError ==
    /\ pc = "fault"
    /\ log' = Append(log, "[ERROR] Server error")
    /\ pc' = "finally"
    /\ UNCHANGED <<available, model, current_model_name, line, response, out,
                   nRead, nNonBlank, loads, stopped_by, exc>>

\* l.170-171, then run returns or re-raises the pending exception
Finally ==
    /\ pc = "finally"
    /\ log' = Append(log, "[INFO] Embedding server stopped")
    /\ pc' = IF exc = None THEN "returned" ELSE "raised"
    /\ UNCHANGED <<available, model, current_model_name, line, response, out,
                   nRead, nNonBlank, loads, stopped_by, exc>>

Next ==
    \/ Start
    \/ \E raw \in RawLines : ReadLine(raw)
    \/ EndOfInput
    \/ DecodeError
    \/ PrintError
    \/ HandleRequestRaises
    \/ HandleRequest
    \/ EmbedLoadModel
    \/ ReuseReturn
    \/ ConstructOk
    \/ ConstructRaises
    \/ SetName
    \/ EncodeOk
    \/ EncodeRaises
    \/ PrintResponse
    \/ CheckShutdown
    \/ InterruptInLoop
    \/ InterruptOutside
    \/ LogInterrupted
    \/ LogServerError
    \/ Finally

Spec == Init /\ [][Next]_vars

----------------------------------------------------------------------------
\* Properties

\* The loop is between iterations, or has been left other than by an interruption.
Quiescent ==
    \/ pc = "read"
    \/ pc \in {"fault", "finally", "returned", "raised"} /\ stopped_by # "interrupt"

\* C1: whenever the loop is between iterations or has ended without an
\* interruption, the number of response lines on stdout equals the number of
\* non-blank lines read: each such line got exactly one response.
C1_OneResponsePerLine == Quiescent => Len(out) = nNonBlank

\* C2: handle_request is total: once a decoded value has been dispatched and
\* the dispatch is over (and was not interrupted), a response record exists,
\* and it carries an error message whenever success is false.
C2_HandleRequestTotal ==
    (Decodes(line) /\ stopped_by # "interrupt"
        /\ pc \notin {"body", "reuse_return", "construct", "set_name", "encode"})
    => /\ "success" \in DOMAIN response
       /\ (~response.success => response.error # None)

\* C3: the loop is left only by a shutdown response, by the end of the input
\* or by an interruption; no input line makes it end any other way.
C3_OnlyThreeStops == stopped_by \in {"running", "shutdown", "eof", "interrupt"}

\* C4: every response built by the dispatcher carries the id of the request
\* it answers, or "unknown" when the request has none, on success and failure.
C4_IdEchoed ==
    (IsDict(line) /\ "success" \in DOMAIN response)
    => /\ "id" \in DOMAIN response
       /\ response.id = (IF "id" \in DOMAIN line.obj THEN line.obj.id ELSE "unknown")

C4_Witness ==
    /\ pc = "check"
    /\ IsDict(line)
    /\ ~response.success
    /\ response.id = "r1"

\* The response just printed is the one of the current line and carries the shutdown flag.
ShutdownWritten ==
    /\ Len(out) > 0
    /\ out[Len(out)] = nRead
    /\ Get(response, "shutdown", FALSE)

\* C5: the response to a shutdown request has success = true and shutdown =
\* true; a loop left through the shutdown break has written that response; and
\* once it is written no further line is read and nothing more is printed.
C5_ShutdownStops ==
    /\ []((IsDict(line) /\ RequestAction(line.obj) = "shutdown"
             /\ "success" \in DOMAIN response)
          => (response.success /\ Get(response, "shutdown", FALSE)))
    /\ [](stopped_by = "shutdown" => ShutdownWritten)
    /\ [][ShutdownWritten => (out' = out /\ nRead' = nRead /\ pc' # "read")]_vars

C5_Witness ==
    /\ pc = "returned"
    /\ stopped_by = "shutdown"
    /\ Len(out) = 2
    /\ nRead < MaxLines

\* The current line is non-blank and json.loads rejected it.
Undecodable == line.text = "garbage"

\* C6: an undecodable line gets one failure response without an id, leaves
\* the registry as it was, and the loop goes back to reading (unless interrupted).
C6_MalformedLine ==
    /\ []((Undecodable /\ pc = "read")
          => /\ response.success = FALSE
             /\ "error" \in DOMAIN response
             /\ "id" \notin DOMAIN response
             /\ Len(out) = nNonBlank
             /\ out[Len(out)] = nRead
             /\ stopped_by = "running")
    /\ [][(Undecodable /\ pc \in {"body", "print_error"})
          => /\ model' = model
             /\ current_model_name' = current_model_name
             /\ loads' = loads
             /\ pc' \in {pc, "print_error", "read", "interrupted"}]_vars

\* a valid request is answered successfully after a malformed line
C6_Witness ==
    /\ \E i \in 1..Len(log) : log[i] = "[ERROR] Invalid JSON"
    /\ pc = "check"
    /\ IsDict(line)
    /\ response.success
    /\ Len(out) = nNonBlank

\* C7: responses are printed in the order their lines were read: each print
\* answers the line read last, and a line is read only when every non-blank
\* line before it has its response.
C7_ResponsesInOrder ==
    /\ [](\A i, j \in 1..Len(out) : i < j => out[i] < out[j])
    /\ [][out' # out => out' = Append(out, nRead)]_vars
    /\ [][nRead' # nRead => Len(out) = nNonBlank]_vars

C7_Witness ==
    /\ Len(out) = 3
    /\ nRead = 3

\* The dispatch of an embed request has just left the position "body".
EmbedDispatched ==
    /\ pc = "body"
    /\ IsDict(line)
    /\ RequestAction(line.obj) = "embed"
    /\ pc' \notin {"body", "interrupted"}

\* C8 as stated: every embed request calls the constructor if and only if no
\* model is loaded or the requested name differs from the current name.
C8_LoadIffForEveryEmbed ==
    [][EmbedDispatched
       => ((pc' = "construct")
             <=> (model = None \/ current_model_name # RequestModel(line.obj)))]_vars

\* C8 amended: an embed request that reaches the registry (non-empty texts,
\* library available) calls the constructor if and only if no model is loaded
\* or the requested name differs from the current name; on reuse the registry
\* and the number of loads are unchanged; each load is one constructor call;
\* after a successful load the held model and the current name are the
\* requested name.
C8_LoadIffReachesRegistry ==
    /\ [][(EmbedDispatched /\ Truthy(RequestTexts(line.obj)) /\ available)
          => IF model = None \/ current_model_name # RequestModel(line.obj)
               THEN pc' = "construct"
               ELSE pc' = "reuse_return"]_vars
    /\ [][(EmbedDispatched /\ ~(Truthy(RequestTexts(line.obj)) /\ available))
          => pc' = "print"]_vars
    /\ [][loads' # loads => (pc = "construct" /\ loads' = loads + 1)]_vars
    /\ [][(pc = "reuse_return" /\ pc' = "encode")
          => (loads' = loads /\ model' = model
                /\ current_model_name' = current_model_name)]_vars
    /\ [](pc = "encode"
          => (model = RequestModel(line.obj)
                /\ current_model_name = RequestModel(line.obj)))

\* the second of two consecutive embeds of one name reuses the model of the first
C8_Witness ==
    /\ pc = "reuse_return"
    /\ loads = 1
    /\ nRead = 2

\* C9: a failed load leaves the held model and the current name as they
\* were, is answered by a failure response and does not end the loop; the
\* current name changes only after the constructor has returned the model of
\* that name; without the library the registry never leaves its initial state.
C9_FailedLoadKeepsRegistry ==
    /\ [][(pc = "construct" /\ pc' = "print")
          => /\ model' = model
             /\ current_model_name' = current_model_name
             /\ response'.success = FALSE
             /\ stopped_by' = "running"]_vars
    /\ [][current_model_name' # current_model_name
          => (pc = "set_name" /\ model = current_model_name')]_vars
    /\ [](~available => (model = None /\ current_model_name = None /\ loads = 0))

\* a load of m2 failed while the default model was loaded
C9_Witness ==
    /\ pc = "print"
    /\ model = DefaultModel
    /\ current_model_name = DefaultModel
    /\ response.success = FALSE
    /\ response.error = "Failed to load model: m2"

Answered ==
    /\ IsDict(line)
    /\ stopped_by # "interrupt"
    /\ pc \notin {"body", "reuse_return", "construct", "set_name", "encode"}

\* C11: every ping request is answered with success = true, pong = true and a
\* flag equal to the availability of the embedding library, whatever the
\* registry holds.
C11_PingAnswered ==
    (Answered /\ "action" \in DOMAIN line.obj /\ line.obj.action = "ping")
    => /\ "success" \in DOMAIN response
       /\ response.success = TRUE
       /\ response.pong = TRUE
       /\ response.sentence_transformers_available = available
       /\ response.error = None

\* a ping answered without the library, after another line
C11_Witness ==
    /\ pc = "check"
    /\ IsDict(line)
    /\ RequestAction(line.obj) = "ping"
    /\ response.pong = TRUE
    /\ ~available
    /\ nRead = 2

\* The current line is an embed request whose texts are absent or an empty list.
EmbedWithoutTexts ==
    /\ IsDict(line)
    /\ "action" \in DOMAIN line.obj
    /\ line.obj.action = "embed"
    /\ ("texts" \notin DOMAIN line.obj \/ line.obj.texts = EmptyList)

\* C12: every embed request whose texts are absent or empty is answered with
\* success = false and the error "No texts provided", whatever its model
\* field, the registry and the availability of the library.
C12_NoTextsRejected ==
    (Answered /\ EmbedWithoutTexts)
    => /\ "success" \in DOMAIN response
       /\ response.success = FALSE
       /\ response.error = "No texts provided"
       /\ "embeddings" \notin DOMAIN response

\* an embed request naming a model but no texts, rejected without the library
C12_Witness ==
    /\ pc = "check"
    /\ EmbedWithoutTexts
    /\ "model" \in DOMAIN line.obj
    /\ ~available
    /\ response.error = "No texts provided"

\* The action the current line asks for is missing or not one of the three known.
UnknownAction ==
    /\ IsDict(line)
    /\ ("action" \notin DOMAIN line.obj
          \/ line.obj.action \notin {"embed", "ping", "shutdown"})

\* C13: every request whose action is missing or unknown is answered with
\* success = false and an error that names the action value ("unknown" when
\* the action is missing).
C13_UnknownActionNamed ==
    (Answered /\ UnknownAction)
    => /\ "success" \in DOMAIN response
       /\ response.success = FALSE
       /\ response.error =
            "Unknown action: " \o (IF "action" \in DOMAIN line.obj
                                     THEN line.obj.action ELSE "unknown")

C13_Witness ==
    /\ pc = "check"
    /\ UnknownAction
    /\ response.error = "Unknown action: bogus"

\* The current line is an embed request with a non-empty list of texts.
EmbedWithTexts ==
    /\ IsDict(line)
    /\ RequestAction(line.obj) = "embed"
    /\ "texts" \in DOMAIN line.obj
    /\ line.obj.texts.tag = "list"
    /\ Len(line.obj.texts.val) > 0

\* C14 as stated: an embed request with n > 0 texts whose model loads (the
\* registry holds the requested model when the dispatch is over) is answered
\* with success = true.
C14_SuccessWheneverLoaded ==
    (Answered /\ EmbedWithTexts /\ available
        /\ model = RequestModel(line.obj)
        /\ current_model_name = RequestModel(line.obj))
    => response.success = TRUE

\* C14 amended: an embed request with n > 0 texts is answered, unless the
\* library is missing, the load fails or encode raises, with success = true,
\* n vectors in the order of the texts (vector i is the held model's vector
\* for text i), count = n and dimensions = d, the common length of the
\* vectors, which is the model's.
C14_EmbedShape ==
    (Answered /\ EmbedWithTexts)
    => /\ "success" \in DOMAIN response
       /\ \/ /\ response.success = FALSE
             /\ response.error \in
                  {"sentence-transformers not available", "encode failed",
                   "Failed to load model: " \o DefaultModel,
                   "Failed to load model: " \o OtherModel}
          \/ /\ response.success = TRUE
             /\ Len(response.embeddings) = Len(line.obj.texts.val)
             /\ response.count = Len(line.obj.texts.val)
             /\ response.dimensions = Dim(model)
             /\ \A i \in 1..Len(response.embeddings) :
                   /\ Len(response.embeddings[i]) = response.dimensions
                   /\ response.embeddings[i] = Vector(model, line.obj.texts.val[i])

\* two texts embedded by the three-dimensional model
C14_Witness ==
    /\ pc = "check"
    /\ EmbedWithTexts
    /\ response.success
    /\ response.count = 2
    /\ response.dimensions = 3

StartEvent == "[INFO] Embedding server started"
StopEvent == "[INFO] Embedding server stopped"
StopEvents == {i \in 1..Len(log) : log[i] = StopEvent}

C16_LoadFailureAnswered ==
    /\ []((Answered /\ RequestAction(line.obj) = "embed"
             /\ Truthy(RequestTexts(line.obj)) /\ ~available)
          => /\ "success" \in DOMAIN response
             /\ response.success = FALSE
             /\ response.error = "sentence-transformers not available"
             /\ "embeddings" \notin DOMAIN response)
    /\ [][(pc = "construct" /\ pc' \notin {"construct", "set_name", "interrupted"})
          => /\ pc' = "print"
             /\ response'.success = FALSE
             /\ response'.error = "Failed to load model: " \o RequestModel(line.obj)
             /\ "embeddings" \notin DOMAIN response']_vars
    /\ [][(pc = "check" /\ response.success = FALSE)
          => pc' \in {"check", "read", "interrupted"}]_vars

\* the line after a failed load is being read
C16_Witness ==
    /\ pc = "read"
    /\ IsDict(line)
    /\ "success" \in DOMAIN response
    /\ response.error = "Failed to load model: " \o DefaultModel
    /\ nRead < MaxLines
    /\ stopped_by = "running"

C18_RegistryFrame ==
    [][(model' # model \/ current_model_name' # current_model_name \/ loads' # loads)
       => /\ IsDict(line)
          /\ "action" \in DOMAIN line.obj
          /\ line.obj.action = "embed"
          /\ "texts" \in DOMAIN line.obj
          /\ line.obj.texts.tag # "null"
          /\ Len(line.obj.texts.val) > 0]_vars

\* an unknown action was answered with a model loaded
C18_Witness ==
    /\ pc = "check"
    /\ UnknownAction
    /\ model = OtherModel
    /\ current_model_name = OtherModel
    /\ loads = 1

\* C19: a successful embed response holds only vectors of the model the
\* request names (by default the default model), and that model is the one
\* the registry holds and names; a request whose load failed gets a failure
\* without vectors, whatever model was loaded before.
C19_ComputedByRequestedModel ==
    /\ []((IsDict(line) /\ "embeddings" \in DOMAIN response)
          => /\ response.success = TRUE
             /\ model = RequestModel(line.obj)
             /\ current_model_name = RequestModel(line.obj)
             /\ \A i \in 1..Len(response.embeddings) :
                   \A k \in 1..Len(response.embeddings[i]) :
                      response.embeddings[i][k][1] =
                        (IF "model" \in DOMAIN line.obj THEN line.obj.model
                                                        ELSE "all-MiniLM-L6-v2"))
    /\ []((IsDict(line) /\ "success" \in DOMAIN response /\ response.success = TRUE
             /\ RequestAction(line.obj) = "embed")
          => "embeddings" \in DOMAIN response)

\* the default model is loaded, a request for m2 failed to load and was answered
C19_Witness ==
    /\ pc = "check"
    /\ model = DefaultModel
    /\ current_model_name = DefaultModel
    /\ response.success = FALSE
    /\ response.error = "Failed to load model: " \o OtherModel
    /\ "embeddings" \notin DOMAIN response

\* C20: initially neither a model nor a name is set; between requests (at
\* every position but the one between the two assignments of a load, and
\* unless an interruption ended the loop there) the held model is the one
\* the current name names, or both are unset; a load adds no second model.
C20_RegistryConsistent ==
    /\ (pc = "start" => (model = None /\ current_model_name = None))
    /\ ((pc # "set_name" /\ stopped_by # "interrupt") => model = current_model_name)
    /\ model \in {None} \cup ModelNames
    /\ current_model_name \in {None} \cup ModelNames

\* between requests, after the first model was replaced by a second
C20_Witness ==
    /\ pc = "read"
    /\ loads = 2
    /\ model = OtherModel
    /\ current_model_name = OtherModel
    /\ Len(out) = 2

====
